---- MODULE Spec2Model ----
(***************************************************************************)
(* Model of the analytics event log of the stock-market dashboard          *)
(* (src/analytics.py and its callers in src/dashboard.py).                 *)
(*                                                                         *)
(* The log file analytics_data.json is shared by every Streamlit session   *)
(* of the process.  Each record operation is read-entire-file, mutate in   *)
(* memory, write-entire-file, with no lock; the write itself is            *)
(* open(..., 'w') (which truncates the file) followed by json.dump.        *)
(* The steps of different sessions interleave.                             *)
(***************************************************************************)
EXTENDS Integers, Sequences, FiniteSets, TLC

\* ---------------------------------------------------------------- bounds --
Sessions == {1, 2}          \* Streamlit sessions (script threads) of the process
MaxOps == 2                 \* operations started after the visits, one writer at a time
MaxRaceOps == 1             \* the same, when the sessions interleave
MaxClock == 2               \* the last reading of the wall clock, in ticks
TicksPerSecond == 2         \* clock ticks per second: the clock is finer than the
                            \* "%S" of the timestamp format

\* ------------------------------------------------------------- vocabulary --
Names == {"visits", "page_views", "interactions"}
Pages == {"Stock Dashboard", "Settings"}
NoDetails == <<>>           \* details or {}: the mapping as its sequence of (key, value)
Impls == {"analytics", "dashboard"}

\* datetime.now().strftime("%Y-%m-%d %H:%M:%S"): the clock cut to whole seconds
Timestamp(t) == t \div TicksPerSecond

\* ------------------------------------------------- contents of the file --
\* A file content is a record
\*   kind         "missing"    no file
\*                "unparsable" text on which json.load raises JSONDecodeError
\*                "truncated"  the empty file left by open(..., 'w') before
\*                             json.dump has written (also a JSONDecodeError)
\*                "nonmap"     a JSON value that is no object (a list, a number)
\*                "map"        a JSON object
\*   keys         which of the three names the object has
\*   bad          the names whose value is not a list (a number such as 5)
\*   visits, page_views, interactions   the lists (<<>> when absent or bad)
Content(k, ks, b, v, p, i) ==
    [kind |-> k, keys |-> ks, bad |-> b, visits |-> v, page_views |-> p, interactions |-> i]

Missing == Content("missing", {}, {}, <<>>, <<>>, <<>>)
Unparsable == Content("unparsable", {}, {}, <<>>, <<>>, <<>>)
Truncated == Content("truncated", {}, {}, <<>>, <<>>, <<>>)
NonMap == Content("nonmap", {}, {}, <<>>, <<>>, <<>>)

\* {"visits": [], "page_views": [], "interactions": []}
EmptyLog == Content("map", Names, {}, <<>>, <<>>, <<>>)

WellFormed(c) == c.kind = "map" /\ c.keys = Names /\ c.bad = {}

\* events as stored
Visit(u, ts, sid) == [user_id |-> u, timestamp |-> ts, session_id |-> sid]
PageView(u, ts, p, n) == [user_id |-> u, timestamp |-> ts, page_name |-> p, view_count |-> n]
Interaction(u, ts, ty, d) == [user_id |-> u, timestamp |-> ts, interaction_type |-> ty, details |-> d]

\* Logs left by earlier runs of the program, and files it did not write.
OldVisits == << Visit(0, 0, 0), Visit(0, 0, 0) >>
OldLog == Content("map", Names, {}, OldVisits,
                  << PageView(0, 0, "Settings", 1) >>,
                  << Interaction(0, 0, "dashboard_update", NoDetails) >>)
InitFiles ==
    { Missing, Unparsable, NonMap, OldLog,
      Content("map", {"visits"}, {}, << Visit(0, 0, 0) >>, <<>>, <<>>),
      Content("map", Names, {"interactions"}, << Visit(0, 0, 0) >>, <<>>, <<>>),
      Content("map", Names, {"visits"}, <<>>, <<>>, <<>>) }

\* ------------------------------------------------------------------ state --
VARIABLES
    file,                 \* analytics_data.json
    now,                  \* the last reading of the wall clock, in ticks
    nextUuid,             \* uuid.uuid4(): the next fresh identifier
    nops,                 \* operations each session started (bounds the model)
    limit,                \* how many may start
    initialized,          \* st.session_state.analytics_initialized, per session
    user_id,              \* st.session_state.user_id
    visit_timestamp,      \* st.session_state.visit_timestamp
    session_page_views,   \* st.session_state.page_views: page name -> count
    session_interactions, \* st.session_state.interactions
    pc,                   \* where the session's script thread is
    op,                   \* the operation it is in
    ev,                   \* the event built by the operation (<<e>>, or <<>>)
    all_analytics,        \* the operation's local copy of the log
    raised,               \* the exception the session's last record operation ended
                          \* with, or "none"
    report,               \* the summary the session's page displays
    hist,                 \* history: the last two complete contents of the file, the
                          \* operation that wrote the last one and its event, and
                          \* the sessions whose visit has been written
    pv_calls,             \* history: calls of record_page_view per session and page
    race,                 \* history: two record operations that both loaded before
                          \* either opened the file for writing
    call,                 \* a call of a function of the program: its name and argument
    result,               \* what the call returned (<<r>>), <<>> before it returns
    current_page,         \* st.session_state.current_page of dashboard.py ("none": not set)
    phase,                \* where the session's script run of dashboard.py is
    button,               \* the navigation button whose press started the run, or "none"
    auto_refresh,         \* the local auto_refresh of the run (the sidebar's checkbox)
    run,                  \* history: the events the script run has appended, in order
    cycles                \* history: the cycles of the refresh loop the run has completed

vars == << file, now, nextUuid, nops, limit, initialized, user_id, visit_timestamp,
           session_page_views, session_interactions, pc, op, ev, all_analytics, raised, report,
           hist, pv_calls, race, call, result, current_page, phase, button, auto_refresh,
           run, cycles >>

fnVars == << call, result >>
runVars == << current_page, phase, button, auto_refresh, run, cycles >>
\* no function is being called
NoCall == [fn |-> "none"]

sessionVars == << initialized, user_id, visit_timestamp, session_page_views, session_interactions >>

\* the page shows no metrics; exc is the exception the page shows instead, if any
NoReport == [shown |-> FALSE, exc |-> "none"]
Failed(x) == [shown |-> FALSE, exc |-> x]
NoRace == [in |-> {}, order |-> <<>>]

RecordOps == {"record_visit", "record_page_view", "record_interaction", "clear_interaction"}

\* the sequence an operation appends to
NameOf(o) ==
    IF o = "record_visit" THEN "visits"
    ELSE IF o = "record_page_view" THEN "page_views"
    ELSE "interactions"

\* ------------------------------------------------------- pure functions --
\* load_analytics_data without its except clause: the decode error escapes
load_uncaught(f) ==
    IF f.kind = "missing" THEN [exc |-> "none", data |-> EmptyLog]
    ELSE IF f.kind \in {"unparsable", "truncated"}
         THEN [exc |-> "JSONDecodeError", data |-> EmptyLog]
    ELSE [exc |-> "none", data |-> f]

\* load_analytics_data falling back to {} instead of the three empty lists
load_bare_fallback(f) ==
    IF f.kind = "missing" THEN [exc |-> "none", data |-> EmptyLog]
    ELSE IF f.kind \in {"unparsable", "truncated"}
         THEN [exc |-> "none", data |-> Content("map", {}, {}, <<>>, <<>>, <<>>)]
    ELSE [exc |-> "none", data |-> f]

\* load_analytics_data: no file, or JSONDecodeError / FileNotFoundError, give the
\* empty log; any other JSON value is returned as it is.
load_analytics_data(f) ==
    IF f.kind = "missing" THEN [exc |-> "none", data |-> EmptyLog]
    ELSE IF f.kind \in {"unparsable", "truncated"} THEN [exc |-> "none", data |-> EmptyLog]
    ELSE [exc |-> "none", data |-> f]

\* insert(0, e) instead of append(e)
append_event_front(data, name, e) ==
    IF data.kind # "map" THEN [exc |-> "TypeError", data |-> data]
    ELSE IF name \notin data.keys
         THEN [exc |-> "none",
               data |-> [data EXCEPT !.keys = @ \cup {name}, ![name] = << e >>]]
    ELSE IF name \in data.bad THEN [exc |-> "AttributeError", data |-> data]
    ELSE [exc |-> "none", data |-> [data EXCEPT ![name] = << e >> \o @]]

\* the append done twice
append_event_twice(data, name, e) ==
    IF data.kind # "map" THEN [exc |-> "TypeError", data |-> data]
    ELSE IF name \notin data.keys
         THEN [exc |-> "none",
               data |-> [data EXCEPT !.keys = @ \cup {name}, ![name] = << e, e >>]]
    ELSE IF name \in data.bad THEN [exc |-> "AttributeError", data |-> data]
    ELSE [exc |-> "none", data |-> [data EXCEPT ![name] = Append(Append(@, e), e)]]

\* if name not in all_analytics: all_analytics[name] = []
\* all_analytics[name].append(e)
append_event(data, name, e) ==
    IF data.kind # "map" THEN [exc |-> "TypeError", data |-> data]
    ELSE IF name \notin data.keys
         THEN [exc |-> "none",
               data |-> [data EXCEPT !.keys = @ \cup {name}, ![name] = << e >>]]
    ELSE IF name \in data.bad THEN [exc |-> "AttributeError", data |-> data]
    ELSE [exc |-> "none", data |-> [data EXCEPT ![name] = Append(@, e)]]

\* ---- the length of the text json.dump(data, f, indent=2) writes ----
UuidChars == 36             \* str(uuid.uuid4())
TimestampChars == 19        \* "%Y-%m-%d %H:%M:%S"

RECURSIVE SumSeq(_)
SumSeq(q) == IF q = <<>> THEN 0 ELSE q[1] + SumSeq(Tail(q))

Str(n) == n + 2                                  \* a string in quotes
Digits(n) == IF n < 10 THEN 1 ELSE 2
\* one "key": value line of a mapping whose own indentation is 2*d
Entry(d, key, value) == 1 + 2 * (d + 1) + Str(Len(key)) + 2 + value
\* a mapping, given the sizes of its entries
Dict(d, entries) ==
    IF entries = <<>> THEN 2
    ELSE 1 + SumSeq(entries) + (Len(entries) - 1) + 1 + 2 * d + 1
\* a list, given the sizes of its items
List(d, items) ==
    IF items = <<>> THEN 2
    ELSE 1 + SumSeq([i \in 1..Len(items) |-> 1 + 2 * (d + 1) + items[i]])
           + (Len(items) - 1) + 1 + 2 * d + 1

DetailsSize(d) == Dict(3, [i \in 1..Len(d) |-> Entry(3, d[i][1], Str(Len(d[i][2])))])

EventSize(name, e) ==
    LET common == << Entry(2, "user_id", Str(UuidChars)),
                     Entry(2, "timestamp", Str(TimestampChars)) >>
    IN IF name = "visits"
       THEN Dict(2, common \o << Entry(2, "session_id", Str(UuidChars)) >>)
       ELSE IF name = "page_views"
       THEN Dict(2, common \o << Entry(2, "page_name", Str(Len(e.page_name))),
                                 Entry(2, "view_count", Digits(e.view_count)) >>)
       ELSE Dict(2, common \o << Entry(2, "interaction_type", Str(Len(e.interaction_type))),
                                 Entry(2, "details", DetailsSize(e.details)) >>)

\* the text of a JSON object with some of the three names (a value that is no
\* list is the one-digit number)
TextSize(c) ==
    LET value(n) == IF n \in c.bad THEN 1
                    ELSE List(1, [i \in 1..Len(c[n]) |-> EventSize(n, c[n][i])])
        entry(n) == IF n \in c.keys THEN << Entry(0, n, value(n)) >> ELSE <<>>
    IN Dict(0, entry("visits") \o entry("page_views") \o entry("interactions"))

\* json.dump through a handle opened with 'w', a log small enough to reach the file
\* in one write at the close: the handle writes from offset 0.  If the file is still
\* the empty file this open left, the file becomes the dump.  If another writer wrote
\* since, the dump overwrites the head of that text: a longer old text leaves its
\* tail behind the dump, and the file no longer parses.
written(old, data) ==
    IF old.kind = "truncated" THEN {data}
    ELSE IF old.kind = "map"
         THEN IF TextSize(data) >= TextSize(old) THEN {data} ELSE {Unparsable}
    ELSE {data, Unparsable}

\* the values without the removal of duplicates
unique_kept(q) == q

\* pandas Series.unique(): the values in order of first appearance
RECURSIVE unique(_)
unique(q) ==
    IF q = <<>> THEN <<>>
    ELSE LET r == unique(SubSeq(q, 1, Len(q) - 1))
             x == q[Len(q)]
         IN IF \E i \in 1..Len(r) : r[i] = x THEN r ELSE Append(r, x)

Column(q, fld) == [i \in 1..Len(q) |-> q[i][fld]]

\* analytics_data.get(name): falsy when absent or an empty list
Falsy(data, name) == name \notin data.keys \/ (name \notin data.bad /\ data[name] = <<>>)

\* the counts of a bucket list never increase along it
Descending(b) == \A i \in 1..Len(b), j \in 1..Len(b) : i < j => b[i].count >= b[j].count

\* df.groupby(fld).size().reset_index().sort_values(count, ascending=False): one
\* bucket per value of the field, with the number of rows that have it, the larger
\* counts first (the order among equal counts is whatever the sort leaves)
buckets(q, fld) ==
    LET keys == {q[i][fld] : i \in 1..Len(q)}
        size(k) == Cardinality({i \in 1..Len(q) : q[i][fld] = k})
        order == CHOOSE f \in [1..Cardinality(keys) -> keys] :
                    /\ \A k \in keys : \E i \in DOMAIN f : f[i] = k
                    /\ \A i \in DOMAIN f, j \in DOMAIN f : i < j => size(f[i]) >= size(f[j])
    IN [i \in 1..Cardinality(keys) |-> [key |-> order[i], count |-> size(order[i])]]

\* display_analytics_dashboard of analytics.py: the three metrics, or the notice
\* "No analytics data available yet.", or the exception of .get / pd.DataFrame
analytics_summary(data) ==
    IF data.kind # "map" THEN Failed("AttributeError")
    ELSE IF Falsy(data, "visits") THEN NoReport
    ELSE IF data.bad # {} THEN Failed("ValueError")
    ELSE [shown |-> TRUE, exc |-> "none",
          total_visits |-> Len(data.visits),
          unique_users |-> Len(unique(Column(data.visits, "user_id"))),
          total_interactions |-> Len(data.interactions),
          page_popularity |-> buckets(data.page_views, "page_name"),
          interaction_types |-> buckets(data.interactions, "interaction_type")]

\* display_analytics_dashboard of dashboard.py: sessions, users, views per user
dashboard_summary(data) ==
    IF data.kind # "map" THEN Failed("AttributeError")
    ELSE IF Falsy(data, "visits") THEN NoReport
    ELSE IF data.bad # {} THEN Failed("ValueError")
    ELSE [shown |-> TRUE, exc |-> "none",
          total_visits |-> Len(data.visits),
          unique_users |-> Len(unique(Column(data.visits, "user_id"))),
          views |-> Len(data.page_views),
          viewers |-> Len(unique(Column(data.page_views, "user_id"))),
          page_popularity |-> buckets(data.page_views, "page_name"),
          interaction_types |-> buckets(data.interactions, "interaction_type")]

summary(impl, data) ==
    IF impl = "analytics" THEN analytics_summary(data) ELSE dashboard_summary(data)

\* ------------------------------------------------------------------ init --
NoPageViews == [p \in {} |-> 0]

RECURSIVE SumOver(_, _)
SumOver(f, S) == IF S = {} THEN 0
                 ELSE LET x == CHOOSE y \in S : TRUE IN f[x] + SumOver(f, S \ {x})
TotalOps == SumOver(nops, Sessions)

InitWith(n) ==
    /\ file \in InitFiles
    /\ limit = n
    /\ now = 0
    /\ nextUuid = 1
    /\ nops = [s \in Sessions |-> 0]
    /\ initialized = [s \in Sessions |-> FALSE]
    /\ user_id = [s \in Sessions |-> 0]
    /\ visit_timestamp = [s \in Sessions |-> 0]
    /\ session_page_views = [s \in Sessions |-> NoPageViews]
    /\ session_interactions = [s \in Sessions |-> <<>>]
    /\ pc = [s \in Sessions |-> "start"]
    /\ op = [s \in Sessions |-> "none"]
    /\ ev = [s \in Sessions |-> <<>>]
    /\ all_analytics = [s \in Sessions |-> EmptyLog]
    /\ raised = [s \in Sessions |-> "none"]
    /\ report = [s \in Sessions |-> NoReport]
    /\ hist = [prev |-> file, last |-> file, by |-> "none", ev |-> <<>>, visited |-> {}]
    /\ pv_calls = [s \in Sessions |-> [p \in Pages |-> 0]]
    /\ race = NoRace

\* no script run of dashboard.py has begun
NoRun ==
    /\ current_page = [s \in Sessions |-> "none"]
    /\ phase = [s \in Sessions |-> "none"]
    /\ button = [s \in Sessions |-> "none"]
    /\ auto_refresh = [s \in Sessions |-> FALSE]
    /\ run = [s \in Sessions |-> <<>>]
    /\ cycles = [s \in Sessions |-> 0]

Init == InitWith(MaxRaceOps) /\ call = NoCall /\ result = <<>> /\ NoRun

\* --------------------------------------------------------------- actions --
\* datetime.now(): the wall clock never runs backwards; t is the reading
Clock(t) ==
    /\ t \in now..MaxClock
    /\ now' = t

\* A script run of the session calls an operation of the log, which builds its
\* event: the page is rendered anew, and the race that was followed is over.
Begin(s, o, e) ==
    /\ pc' = [pc EXCEPT ![s] = "load"]
    /\ op' = [op EXCEPT ![s] = o]
    /\ ev' = [ev EXCEPT ![s] = << e >>]
    /\ raised' = [raised EXCEPT ![s] = "none"]
    /\ report' = [report EXCEPT ![s] = NoReport]
    /\ race' = NoRace

\* initialize_analytics with an identifier that is not fresh
InitializeAnalyticsSameId(s, t) ==
    /\ pc[s] = "start"
    /\ ~initialized[s]
    /\ \A u \in Sessions : u < s => initialized[u]
    /\ Clock(t)
    /\ initialized' = [initialized EXCEPT ![s] = TRUE]
    /\ user_id' = [user_id EXCEPT ![s] = nextUuid]
    /\ visit_timestamp' = [visit_timestamp EXCEPT ![s] = Timestamp(t)]
    /\ session_page_views' = [session_page_views EXCEPT ![s] = NoPageViews]
    /\ session_interactions' = [session_interactions EXCEPT ![s] = <<>>]
    /\ nextUuid' = nextUuid
    /\ Begin(s, "record_visit", Visit(nextUuid, visit_timestamp'[s], nextUuid + 1))
    /\ UNCHANGED << file, nops, limit, all_analytics, hist, pv_calls >>

\* initialize_analytics without the test of analytics_initialized: every script run
\* starts the session anew and records a visit
InitializeAnalyticsEveryRun(s, t) ==
    /\ \/ pc[s] = "start" /\ ~initialized[s] /\ UNCHANGED nops
       \/ pc[s] = "idle" /\ TotalOps < limit /\ nops' = [nops EXCEPT ![s] = @ + 1]
    /\ \A u \in Sessions : u < s => initialized[u]
    /\ Clock(t)
    /\ initialized' = [initialized EXCEPT ![s] = TRUE]
    /\ user_id' = [user_id EXCEPT ![s] = nextUuid]
    /\ visit_timestamp' = [visit_timestamp EXCEPT ![s] = Timestamp(t)]
    /\ session_page_views' = [session_page_views EXCEPT ![s] = NoPageViews]
    /\ session_interactions' = [session_interactions EXCEPT ![s] = <<>>]
    /\ nextUuid' = nextUuid + 2
    /\ Begin(s, "record_visit", Visit(nextUuid, visit_timestamp'[s], nextUuid + 1))
    /\ UNCHANGED << file, limit, all_analytics, hist, pv_calls >>

\* initialize_analytics, first call of the session, up to record_visit's load
\* (the sessions are alike: they are numbered in the order they arrive)
InitializeAnalytics(s, t) ==
    /\ pc[s] = "start"
    /\ ~initialized[s]
    /\ \A u \in Sessions : u < s => initialized[u]
    /\ Clock(t)
    /\ initialized' = [initialized EXCEPT ![s] = TRUE]
    /\ user_id' = [user_id EXCEPT ![s] = nextUuid]
    /\ visit_timestamp' = [visit_timestamp EXCEPT ![s] = Timestamp(t)]
    /\ session_page_views' = [session_page_views EXCEPT ![s] = NoPageViews]
    /\ session_interactions' = [session_interactions EXCEPT ![s] = <<>>]
    /\ nextUuid' = nextUuid + 2
    /\ Begin(s, "record_visit", Visit(nextUuid, visit_timestamp'[s], nextUuid + 1))
    /\ UNCHANGED << file, nops, limit, all_analytics, hist, pv_calls >>

\* one counter for all the pages of the session
NewViewCountAnyPage(s, p) ==
    SumOver(session_page_views[s], DOMAIN session_page_views[s]) + 1

\* st.session_state.page_views[page_name] after the increment
NewViewCount(s, p) ==
    IF p \in DOMAIN session_page_views[s] THEN session_page_views[s][p] + 1 ELSE 0 + 1

\* record_page_view(p) up to its load
RecordPageView(s, p, t) ==
    /\ pc[s] = "idle"
    /\ TotalOps < limit
    /\ Clock(t)
    /\ nops' = [nops EXCEPT ![s] = @ + 1]
    /\ UNCHANGED limit
    /\ session_page_views' =
           [session_page_views EXCEPT
               ![s] = [q \in DOMAIN @ \cup {p} |-> IF q = p THEN NewViewCount(s, p) ELSE @[q]]]
    /\ pv_calls' = [pv_calls EXCEPT ![s][p] = @ + 1]
    /\ Begin(s, "record_page_view", PageView(user_id[s], Timestamp(t), p, NewViewCount(s, p)))
    /\ UNCHANGED << file, nextUuid, initialized, user_id, visit_timestamp,
                    session_interactions, all_analytics, hist >>

\* record_interaction(ty, d) up to its load
BeginInteraction(s, o, ty, d, t) ==
    LET e == Interaction(user_id[s], Timestamp(t), ty, d) IN
    /\ Clock(t)
    /\ session_interactions' = [session_interactions EXCEPT ![s] = Append(@, e)]
    /\ Begin(s, o, e)
    /\ UNCHANGED << file, nextUuid, initialized, user_id, visit_timestamp,
                    session_page_views, all_analytics, hist, pv_calls >>

RecordInteraction(s, ty, d, t) ==
    /\ pc[s] = "idle"
    /\ TotalOps < limit
    /\ nops' = [nops EXCEPT ![s] = @ + 1]
    /\ UNCHANGED limit
    /\ BeginInteraction(s, "record_interaction", ty, d, t)

\* all_analytics = load_analytics_data(), then the append; an exception ends the
\* script run
Load(s) ==
    /\ pc[s] = "load"
    /\ LET l == load_analytics_data(file)
           a == append_event(l.data, NameOf(op[s]), ev[s][1])
           exc == IF l.exc # "none" THEN l.exc ELSE a.exc
       IN IF exc = "none"
          THEN /\ all_analytics' = [all_analytics EXCEPT ![s] = a.data]
               /\ pc' = [pc EXCEPT ![s] = "save"]
               /\ UNCHANGED << raised, ev >>
          ELSE /\ raised' = [raised EXCEPT ![s] = exc]
               /\ pc' = [pc EXCEPT ![s] = "idle"]
               /\ ev' = [ev EXCEPT ![s] = <<>>]
               /\ UNCHANGED all_analytics
    /\ UNCHANGED << file, now, nextUuid, nops, limit, sessionVars, op, report, hist, pv_calls, race >>

Others(s) == Sessions \ {s}

\* save_analytics_data: open(ANALYTICS_FILE, 'w') creates or empties the file
SaveOpen(s) ==
    /\ pc[s] = "save"
    /\ file' = Truncated
    /\ pc' = [pc EXCEPT ![s] = "write"]
    /\ race' =
         LET waiting == {t \in Others(s) : pc[t] = "save" /\ op[t] \in RecordOps}
         IN IF race.in = {} /\ waiting # {} /\ op[s] \in RecordOps
            THEN [in |-> waiting \cup {s}, order |-> <<>>]
            ELSE race
    /\ UNCHANGED << now, nextUuid, nops, limit, sessionVars, op, ev, all_analytics, raised, report,
                    hist, pv_calls >>

\* save_analytics_data: json.dump(data, f, indent=2) and the close; the operation
\* returns (the button's handler goes on)
SaveWrite(s) ==
    /\ pc[s] = "write"
    /\ file' \in written(file, all_analytics[s])
    /\ hist' = [prev |-> hist.last, last |-> file', by |-> op[s],
                ev |-> IF op[s] = "clear" THEN <<>> ELSE ev[s],
                visited |-> IF op[s] = "record_visit" THEN hist.visited \cup {s}
                            ELSE hist.visited]
    /\ pc' = [pc EXCEPT ![s] = IF op[s] = "clear" THEN "clear_record" ELSE "idle"]
    /\ op' = [op EXCEPT ![s] = "none"]
    /\ ev' = [ev EXCEPT ![s] = <<>>]
    /\ all_analytics' = [all_analytics EXCEPT ![s] = EmptyLog]
    /\ race' = IF s \in race.in
               THEN [race EXCEPT !.order =
                        Append(@, [s |-> s, name |-> NameOf(op[s]), e |-> ev[s][1],
                                    data |-> all_analytics[s]])]
               ELSE race
    /\ UNCHANGED << now, nextUuid, nops, limit, sessionVars, raised, report, pv_calls >>

\* the button saving the log it loads instead of the empty log
ClearKeepsLog(s) ==
    /\ pc[s] = "idle"
    /\ TotalOps < limit
    /\ nops' = [nops EXCEPT ![s] = @ + 1]
    /\ UNCHANGED limit
    /\ load_analytics_data(file).data.kind = "map"
    /\ all_analytics' = [all_analytics EXCEPT ![s] = load_analytics_data(file).data]
    /\ file' = Truncated
    /\ op' = [op EXCEPT ![s] = "clear"]
    /\ pc' = [pc EXCEPT ![s] = "write"]
    /\ raised' = [raised EXCEPT ![s] = "none"]
    /\ report' = [report EXCEPT ![s] = NoReport]
    /\ race' = NoRace
    /\ UNCHANGED << now, nextUuid, sessionVars, ev, hist, pv_calls >>

\* the "Clear Analytics Data" button: save_analytics_data of the empty log, up to the
\* open of the file
Clear(s) ==
    /\ pc[s] = "idle"
    /\ TotalOps < limit
    /\ nops' = [nops EXCEPT ![s] = @ + 1]
    /\ UNCHANGED limit
    /\ all_analytics' = [all_analytics EXCEPT ![s] = EmptyLog]
    /\ file' = Truncated
    /\ op' = [op EXCEPT ![s] = "clear"]
    /\ pc' = [pc EXCEPT ![s] = "write"]
    /\ raised' = [raised EXCEPT ![s] = "none"]
    /\ report' = [report EXCEPT ![s] = NoReport]
    /\ race' = NoRace
    /\ UNCHANGED << now, nextUuid, sessionVars, ev, hist, pv_calls >>

\* the button's handler goes on: record_interaction("clear_analytics_data")
ClearRecord(s, t) ==
    /\ pc[s] = "clear_record"
    /\ UNCHANGED << nops, limit >>
    /\ BeginInteraction(s, "clear_interaction", "clear_analytics_data", NoDetails, t)

\* a summary that counts its own rendering among the session's page views
SummarizeAndCount(s, impl) ==
    /\ pc[s] = "idle"
    /\ TotalOps < limit
    /\ nops' = [nops EXCEPT ![s] = @ + 1]
    /\ UNCHANGED limit
    /\ LET l == load_analytics_data(file)
       IN report' = [report EXCEPT ![s] = IF l.exc # "none" THEN Failed(l.exc)
                                          ELSE summary(impl, l.data)]
    /\ session_page_views' =
           [session_page_views EXCEPT
               ![s] = [q \in DOMAIN @ \cup {"Settings"} |->
                          IF q = "Settings" THEN NewViewCount(s, q) ELSE @[q]]]
    /\ op' = [op EXCEPT ![s] = "summary"]
    /\ UNCHANGED << file, now, nextUuid, initialized, user_id, visit_timestamp,
                    session_interactions, pc, ev, all_analytics, raised, hist, pv_calls, race >>

\* display_analytics_dashboard: one load, then the metrics
Summarize(s, impl) ==
    /\ pc[s] = "idle"
    /\ TotalOps < limit
    /\ nops' = [nops EXCEPT ![s] = @ + 1]
    /\ UNCHANGED limit
    /\ LET l == load_analytics_data(file)
       IN report' = [report EXCEPT ![s] = IF l.exc # "none" THEN Failed(l.exc)
                                          ELSE summary(impl, l.data)]
    /\ op' = [op EXCEPT ![s] = "summary"]
    /\ UNCHANGED << file, now, nextUuid, sessionVars, pc, ev, all_analytics, raised, hist,
                    pv_calls, race >>

InteractionCalls ==
    { << "dashboard_update", NoDetails >>,
      << "page_navigation", << << "to_page", "Settings" >> >> >> }

Step(s) ==
    \/ \E t \in 0..MaxClock : InitializeAnalytics(s, t)
    \/ \E p \in Pages, t \in 0..MaxClock : RecordPageView(s, p, t)
    \/ \E c \in InteractionCalls, t \in 0..MaxClock : RecordInteraction(s, c[1], c[2], t)
    \/ Load(s)
    \/ SaveOpen(s)
    \/ SaveWrite(s)
    \/ Clear(s)
    \/ \E t \in 0..MaxClock : ClearRecord(s, t)
    \/ \E impl \in Impls : Summarize(s, impl)

Next == \E s \in Sessions : Step(s) /\ UNCHANGED fnVars /\ UNCHANGED runVars

Spec == Init /\ [][Next]_vars

\* One writer at a time: an operation runs to its end before another session acts.
Quiet(s) == \A t \in Others(s) : pc[t] \in {"start", "idle"}

NextSeq == \E s \in Sessions : Quiet(s) /\ Step(s) /\ UNCHANGED fnVars /\ UNCHANGED runVars

InitSeq == InitWith(MaxOps) /\ call = NoCall /\ result = <<>> /\ NoRun

SpecSeq == InitSeq /\ [][NextSeq]_vars

\* ------------------------------------------------------------ properties --
Count(q, e) == Cardinality({i \in 1..Len(q) : q[i] = e})
IsPrefix(q, r) == Len(q) <= Len(r) /\ \A i \in 1..Len(q) : q[i] = r[i]
Events(c) == Len(c.visits) + Len(c.page_views) + Len(c.interactions)

\* the two record operations of a race have both written
RaceDone == Len(race.order) = 2
Earlier == race.order[1]
Later == race.order[2]

\* the file is the later writer's log: it has the later writer's event and has lost
\* the earlier writer's append
LaterLogStands ==
    /\ file = Later.data
    /\ Count(file[Later.name], Later.e) >= 1
    /\ Count(file[Earlier.name], Earlier.e) < Count(Earlier.data[Earlier.name], Earlier.e)
    /\ raised[Later.s] = "none"
    /\ raised[Earlier.s] = "none"

\* C1: when two record operations both load before either saves, the file
\* ends as the later writer's log, with the later writer's event and without the
\* earlier writer's, and neither caller sees an error.
C1_LastWriterWins == RaceDone => LaterLogStands

\* C2: with one writer at a time and a well-formed file, every complete content of
\* the file extends the one before it in each of the three sequences, unless it was
\* written by the clear button, which writes three empty sequences.
C2_AppendOnly ==
    (WellFormed(hist.prev) /\ hist.by # "none") =>
        IF hist.by = "clear"
        THEN hist.last = EmptyLog
        ELSE /\ WellFormed(hist.last)
             /\ \A n \in Names : IsPrefix(hist.prev[n], hist.last[n])
             /\ Events(hist.last) = Events(hist.prev) + 1

C2_Witness ==
    /\ WellFormed(hist.prev)
    /\ hist.by = "record_page_view"
    /\ hist.prev.page_views # <<>>
    /\ hist.prev.visits # <<>>
    /\ Len(hist.last.page_views) = Len(hist.prev.page_views) + 1
    /\ file = hist.last

C4_RecordNeverRaises == \A s \in Sessions : raised[s] = "none"

C6_ViewCountIsCallNumber ==
    /\ \A s \in Sessions :
          (op[s] = "record_page_view" /\ ev[s] # <<>>) =>
              ev[s][1].view_count = pv_calls[s][ev[s][1].page_name]
    /\ \A s \in Sessions, p \in Pages :
          IF p \in DOMAIN session_page_views[s]
          THEN session_page_views[s][p] = pv_calls[s][p]
          ELSE pv_calls[s][p] = 0
    /\ (hist.by = "record_page_view" /\ hist.last.kind = "map") =>
          hist.last.page_views[Len(hist.last.page_views)] = hist.ev[1]

C6_Witness ==
    /\ hist.by = "record_page_view"
    /\ file = hist.last
    /\ hist.ev[1].view_count = 2
    /\ \E i \in 1..Len(file.page_views) :
          /\ file.page_views[i].view_count = 1
          /\ file.page_views[i].page_name = hist.ev[1].page_name
          /\ file.page_views[i].user_id = hist.ev[1].user_id

\* a session's page has just been rendered by display_analytics_dashboard
Summarized(s) == pc[s] = "idle" /\ pc'[s] = "idle" /\ nops'[s] = nops[s] + 1

UserIds(q) == {q[i].user_id : i \in 1..Len(q)}

\* C7: a summary that displays metrics displays the number of visits of the log as
\* total visits and the number of distinct user_id values among them as unique users;
\* it displays metrics whenever the log is well-formed and has a visit.
C7_VisitsAndUniqueUsers ==
    [][\A s \in Sessions :
          Summarized(s) =>
              /\ report'[s].shown =>
                    /\ report'[s].total_visits = Len(file.visits)
                    /\ report'[s].unique_users = Cardinality(UserIds(file.visits))
              /\ (WellFormed(file) /\ file.visits # <<>>) => report'[s].shown]_vars

C7_Witness ==
    \E s \in Sessions :
        /\ op[s] = "summary"
        /\ report[s].shown
        /\ report[s].total_visits = 3
        /\ report[s].unique_users = 2
        /\ Len(file.visits) = 3

\* the clear button's handler has just returned
Cleared == hist.by = "clear_interaction" /\ file = hist.last

SeesOldOrNew(s) ==
    LET seen == load_analytics_data(file).data
    IN \/ seen = load_analytics_data(hist.last).data
       \/ \E t \in Others(s) : pc[t] = "write" /\ seen = all_analytics[t]

\* C9: no load, of a record operation or of a summary, observes the file
\* in a state that is neither the complete old log nor the complete new one.
C9_SaveIsAtomic ==
    [][\A s \in Sessions :
          ((pc[s] = "load" /\ pc'[s] # "load") \/ Summarized(s)) => SeesOldOrNew(s)]_vars

\* C10: a summary leaves the file and the counters of every session as they were.
C10_SummaryMutatesNothing ==
    [][\A s \in Sessions :
          Summarized(s) =>
              /\ file' = file
              /\ session_page_views' = session_page_views
              /\ session_interactions' = session_interactions
              /\ hist' = hist]_vars

C10_Witness ==
    \E s \in Sessions :
        /\ op[s] = "summary"
        /\ report[s].shown
        /\ file.page_views # <<>>
        /\ session_page_views[s] # NoPageViews

\* the timestamps of a sequence never decrease along it
NonDecreasing(q) == \A i \in 1..Len(q), j \in 1..Len(q) : i < j => q[i].timestamp <= q[j].timestamp

\* C11: in every log the program leaves, under every interleaving of the sessions,
\* an event appended after another one of its sequence has a timestamp that is not
\* smaller.
C11_TimestampsNonDecreasing ==
    file.kind = "map" => \A n \in file.keys \ file.bad : NonDecreasing(file[n])

\* the events a session has built or recorded carry its user_id
CarriesOwnId(s) ==
    /\ ev[s] # <<>> => ev[s][1].user_id = user_id[s]
    /\ \A i \in 1..Len(session_interactions[s]) : session_interactions[s][i].user_id = user_id[s]

\* C12: once a session is initialized its user_id never changes; every event the
\* session builds carries it; two sessions never have the same user_id, and none has
\* the user_id of an event that was in the log before.
C12_UserIdStable ==
    /\ [](\A s \in Sessions : initialized[s] =>
              /\ CarriesOwnId(s)
              /\ \A t \in Others(s) : initialized[t] => user_id[t] # user_id[s]
              /\ user_id[s] # 0)
    /\ [][\A s \in Sessions : initialized[s] => user_id'[s] = user_id[s]]_vars

C12_Witness ==
    /\ \A s \in Sessions : initialized[s] /\ pc[s] = "idle"
    /\ file.kind = "map"
    /\ \E i \in 1..Len(file.visits) : file.visits[i].user_id = user_id[1]
    /\ \E i \in 1..Len(file.visits) : file.visits[i].user_id = user_id[2]
    /\ \E i \in 1..Len(file.page_views) : file.page_views[i].user_id = user_id[1]
    /\ \E i \in 1..Len(file.interactions) : file.interactions[i].user_id = user_id[1]

\* ------------------------------------------------ the log as JSON text --
\* Values of the program, as json.dump sees them: str, int, bool, list, dict (the
\* pairs of a dict in insertion order).
PyStr(x) == [kind |-> "str", val |-> x]
PyInt(n) == [kind |-> "int", val |-> n]
PyBool(b) == [kind |-> "bool", val |-> b]
PyList(items) == [kind |-> "list", val |-> items]
PyDict(pairs) == [kind |-> "dict", val |-> pairs]

\* an encoder with default=str applied to every scalar: numbers written as strings
RECURSIVE json_dump_all_str(_)
json_dump_all_str(v) ==
    CASE v.kind = "str" -> [kind |-> "string", val |-> v.val]
      [] v.kind = "int" -> [kind |-> "string", val |-> "0"]
      [] v.kind = "bool" -> [kind |-> "string", val |-> "True"]
      [] v.kind = "list" ->
            [kind |-> "array", val |-> [i \in 1..Len(v.val) |-> json_dump_all_str(v.val[i])]]
      [] v.kind = "dict" ->
            [kind |-> "object",
             val |-> [i \in 1..Len(v.val) |-> << v.val[i][1], json_dump_all_str(v.val[i][2]) >>]]

\* json.dump: the JSON value written for a value of the program (the text is that
\* value with indent=2; strings are escaped to ASCII and denote the same characters)
RECURSIVE json_dump(_)
json_dump(v) ==
    CASE v.kind = "str" -> [kind |-> "string", val |-> v.val]
      [] v.kind = "int" -> [kind |-> "number", val |-> v.val]
      [] v.kind = "bool" -> [kind |-> IF v.val THEN "true" ELSE "false", val |-> <<>>]
      [] v.kind = "list" ->
            [kind |-> "array", val |-> [i \in 1..Len(v.val) |-> json_dump(v.val[i])]]
      [] v.kind = "dict" ->
            [kind |-> "object",
             val |-> [i \in 1..Len(v.val) |-> << v.val[i][1], json_dump(v.val[i][2]) >>]]

\* json.load: the value of the program read from a JSON value
RECURSIVE json_load(_)
json_load(j) ==
    CASE j.kind = "string" -> PyStr(j.val)
      [] j.kind = "number" -> PyInt(j.val)
      [] j.kind = "true" -> PyBool(TRUE)
      [] j.kind = "false" -> PyBool(FALSE)
      [] j.kind = "array" -> PyList([i \in 1..Len(j.val) |-> json_load(j.val[i])])
      [] j.kind = "object" ->
            PyDict([i \in 1..Len(j.val) |-> << j.val[i][1], json_load(j.val[i][2]) >>])

\* the three event variants as the record operations build them
visit_data(u, ts, sid) ==
    PyDict(<< << "user_id", PyStr(u) >>, << "timestamp", PyStr(ts) >>,
              << "session_id", PyStr(sid) >> >>)
page_view_data(u, ts, p, n) ==
    PyDict(<< << "user_id", PyStr(u) >>, << "timestamp", PyStr(ts) >>,
              << "page_name", PyStr(p) >>, << "view_count", PyInt(n) >> >>)
interaction_data(u, ts, ty, d) ==
    PyDict(<< << "user_id", PyStr(u) >>, << "timestamp", PyStr(ts) >>,
              << "interaction_type", PyStr(ty) >>, << "details", d >> >>)

\* the details mappings the callers pass: none, a string, a list of strings, a
\* mapping with lists, booleans and numbers (the saved settings)
DetailsPassed ==
    { PyDict(<<>>),
      PyDict(<< << "to_page", PyStr("Settings") >> >>),
      PyDict(<< << "stocks", PyList(<< PyStr("AAPL"), PyStr("MSFT") >>) >> >>),
      PyDict(<< << "settings",
                   PyDict(<< << "default_tickers", PyList(<< PyStr("AAPL") >>) >>,
                             << "auto_refresh", PyBool(FALSE) >>,
                             << "refresh_interval", PyInt(60) >>,
                             << "show_technical_indicators", PyBool(TRUE) >> >>) >> >>) }

MaxLogLen == 2              \* events in each sequence of a log that is saved and reloaded

VisitsBuilt == { visit_data(u, "2024-01-01 10:00:00", "s") : u \in {"u1", "u2"} }
PageViewsBuilt == { page_view_data("u1", "2024-01-01 10:00:01", "Settings", n) : n \in {1, 2} }
InteractionsBuilt ==
    { interaction_data("u1", "2024-01-01 10:00:02", "settings_updated", d) : d \in DetailsPassed }

SeqsUpTo(S, n) == UNION { [1..k -> S] : k \in 0..n }

\* {"visits": [...], "page_views": [...], "interactions": [...]}
PyLog(v, p, i) ==
    PyDict(<< << "visits", PyList(v) >>, << "page_views", PyList(p) >>,
              << "interactions", PyList(i) >> >>)

LogsBuilt ==
    { PyLog(v, p, i) : v \in SeqsUpTo(VisitsBuilt, MaxLogLen),
                       p \in SeqsUpTo(PageViewsBuilt, MaxLogLen),
                       i \in SeqsUpTo(InteractionsBuilt, MaxLogLen) }

\* a call returns
Return(r) ==
    /\ result = <<>>
    /\ result' = << r >>
    /\ UNCHANGED << file, now, nextUuid, nops, limit, sessionVars, pc, op, ev, all_analytics,
                    raised, report, hist, pv_calls, race, call >>
    /\ UNCHANGED runVars

\* save_analytics_data(L), no other writer, then load_analytics_data()
SaveThenLoad ==
    /\ call.fn = "save_then_load"
    /\ Return(json_load(json_dump(call.arg)))

RECURSIVE Gcd(_, _)
Gcd(a, b) == IF b = 0 THEN a ELSE Gcd(b, a % b)
Abs(n) == IF n < 0 THEN -n ELSE n

NaN == [k |-> "nan", n |-> 0, d |-> 0]
Inf(sign) == [k |-> "inf", n |-> sign, d |-> 0]
Q(n, d) ==
    LET g == Gcd(Abs(n), Abs(d))
        sg == IF d < 0 THEN -1 ELSE 1
    IN [k |-> "num", n |-> sg * (n \div g), d |-> sg * (d \div g)]
Num(n) == Q(n, 1)

IsNaN(x) == x.k = "nan"
Sign(x) == IF x.n > 0 THEN 1 ELSE IF x.n < 0 THEN -1 ELSE 0

FNeg(x) == IF x.k = "nan" THEN NaN ELSE IF x.k = "inf" THEN Inf(-x.n) ELSE Q(-x.n, x.d)
FAbs(x) == IF x.k = "nan" THEN NaN ELSE IF x.k = "inf" THEN Inf(1) ELSE Q(Abs(x.n), x.d)
FAdd(x, y) ==
    IF x.k = "nan" \/ y.k = "nan" THEN NaN
    ELSE IF x.k = "inf" THEN (IF y.k = "inf" /\ y.n # x.n THEN NaN ELSE x)
    ELSE IF y.k = "inf" THEN y
    ELSE LET g == Gcd(x.d, y.d)
         IN Q(x.n * (y.d \div g) + y.n * (x.d \div g), (x.d \div g) * y.d)
FSub(x, y) == FAdd(x, FNeg(y))
FMul(x, y) ==
    IF x.k = "nan" \/ y.k = "nan" THEN NaN
    ELSE IF x.k = "inf" \/ y.k = "inf"
         THEN (IF Sign(x) * Sign(y) = 0 THEN NaN ELSE Inf(Sign(x) * Sign(y)))
    ELSE Q(x.n * y.n, x.d * y.d)
\* float division: x/0 is +-inf, 0/0 is NaN, no exception
FDiv(x, y) ==
    IF x.k = "nan" \/ y.k = "nan" THEN NaN
    ELSE IF y.k = "inf" THEN (IF x.k = "inf" THEN NaN ELSE Num(0))
    ELSE IF x.k = "inf" THEN Inf(IF y.n < 0 THEN -x.n ELSE x.n)
    ELSE IF y.n = 0 THEN (IF x.n = 0 THEN NaN ELSE Inf(Sign(x)))
    ELSE Q(x.n * y.d, x.d * y.n)

\* x <= y for two values that are not NaN
FLe(x, y) ==
    IF x.k = "inf" THEN x.n = -1 \/ (y.k = "inf" /\ y.n = 1)
    ELSE IF y.k = "inf" THEN y.n = 1
    ELSE x.n * y.d <= y.n * x.d
FLt(x, y) == FLe(x, y) /\ x # y

RECURSIVE FSum(_)
FSum(q) == IF q = <<>> THEN Num(0) ELSE FAdd(q[1], FSum(Tail(q)))

\* ------------------------------------------------------ pandas operations --
\* Series.diff(): the first position has no predecessor
diff(q) == [i \in 1..Len(q) |-> IF i = 1 THEN NaN ELSE FSub(q[i], q[i - 1])]
\* Series.shift()
shift(q) == [i \in 1..Len(q) |-> IF i = 1 THEN NaN ELSE q[i - 1]]
\* Series.clip(lower=0) and Series.clip(upper=0): NaN stays NaN
clip_lower(q) == [i \in 1..Len(q) |-> IF IsNaN(q[i]) \/ FLe(Num(0), q[i]) THEN q[i] ELSE Num(0)]
clip_upper(q) == [i \in 1..Len(q) |-> IF IsNaN(q[i]) \/ FLe(q[i], Num(0)) THEN q[i] ELSE Num(0)]
neg(q) == [i \in 1..Len(q) |-> FNeg(q[i])]

\* the window ending at position i
Window(q, w, i) == SubSeq(q, i - w + 1, i)
Full(q, w, i) == i >= w /\ \A j \in (i - w + 1)..i : ~IsNaN(q[j])

\* a rolling mean that yields 0 before a full window
rolling_mean_zero_filled(q, w) ==
    [i \in 1..Len(q) |-> IF Full(q, w, i) THEN FDiv(FSum(Window(q, w, i)), Num(w)) ELSE Num(0)]

\* Series.rolling(window=w).mean(): min_periods is the window, so a position with
\* fewer than w values that are not NaN in its window is NaN
rolling_mean(q, w) ==
    [i \in 1..Len(q) |-> IF Full(q, w, i) THEN FDiv(FSum(Window(q, w, i)), Num(w)) ELSE NaN]

\* an exponential mean that starts from 0 instead of the first value
RECURSIVE ewm_mean_unseeded(_, _)
ewm_mean_unseeded(q, span) ==
    IF q = <<>> THEN <<>>
    ELSE LET alpha == Q(2, span + 1)
             before == ewm_mean_unseeded(SubSeq(q, 1, Len(q) - 1), span)
             prev == IF before = <<>> THEN Num(0) ELSE before[Len(before)]
         IN Append(before, FAdd(FMul(alpha, q[Len(q)]), FMul(FSub(Num(1), alpha), prev)))

\* Series.ewm(span=span, adjust=False).mean(): seeded with the first value
RECURSIVE ewm_mean(_, _)
ewm_mean(q, span) ==
    IF q = <<>> THEN <<>>
    ELSE IF Len(q) = 1 THEN << q[1] >>
    ELSE LET alpha == Q(2, span + 1)
             before == ewm_mean(SubSeq(q, 1, Len(q) - 1), span)
         IN Append(before, FAdd(FMul(alpha, q[Len(q)]),
                                FMul(FSub(Num(1), alpha), before[Len(before)])))

\* Series.rolling(window=w).var() (ddof=1), the square of rolling(window=w).std()
rolling_var(q, w) ==
    [i \in 1..Len(q) |->
        IF ~Full(q, w, i) THEN NaN
        ELSE LET win == Window(q, w, i)
                 m == FDiv(FSum(win), Num(w))
                 sq == [j \in 1..w |-> FMul(FSub(win[j], m), FSub(win[j], m))]
             IN FDiv(FSum(sq), Num(w - 1))]

\* middle + c * sqrt(variance), kept as its three parts; NaN if a part is NaN
Band(middle, variance, c) ==
    IF IsNaN(middle) \/ IsNaN(variance) THEN NaN
    ELSE [k |-> "band", n |-> middle, d |-> variance, c |-> c]

\* ------------------------------------------------------------- the frames --
\* A DataFrame of price bars: its columns (none for the pd.DataFrame() that
\* fetch_stock_data returns when the download fails) and its rows.
OHLCV == {"Open", "High", "Low", "Close", "Volume"}
Frame(c, r) == [cols |-> c, rows |-> r]
NoData == Frame({}, <<>>)
\* DataFrame.empty
empty(data) == data.cols = {} \/ data.rows = <<>>
\* data[name] as a float Series
Col(data, name) == [i \in 1..Len(data.rows) |-> Num(data.rows[i][name])]

Returned(v) == [exc |-> "none", val |-> v]
Raised(e) == [exc |-> e]

\* ----------------------------------------------------------- stock_utils --
RsiPeriod == 14             \* calculate_rsi(prices, period=14)
AtrPeriod == 14             \* calculate_atr(data, period=14)

\* RSI computed as 100 * avg_gain / avg_loss, without the 100 - 100 / (1 + rs)
calculate_rsi_plain_ratio(prices, period) ==
    LET delta == diff(prices)
        avg_gain == rolling_mean(clip_lower(delta), period)
        avg_loss == rolling_mean(neg(clip_upper(delta)), period)
    IN [i \in 1..Len(prices) |-> FMul(Num(100), FDiv(avg_gain[i], avg_loss[i]))]

\* calculate_rsi(prices, period)
calculate_rsi(prices, period) ==
    LET delta == diff(prices)
        gain == clip_lower(delta)
        loss == neg(clip_upper(delta))
        avg_gain == rolling_mean(gain, period)
        avg_loss == rolling_mean(loss, period)
        rs == [i \in 1..Len(prices) |-> FDiv(avg_gain[i], avg_loss[i])]
    IN [i \in 1..Len(prices) |-> FSub(Num(100), FDiv(Num(100), FAdd(Num(1), rs[i])))]

\* the largest of the values that are not NaN (DataFrame.max(axis=1) skips NaN)
RowMax(xs) ==
    LET have == {j \in 1..Len(xs) : ~IsNaN(xs[j])}
    IN IF have = {} THEN NaN
       ELSE xs[CHOOSE j \in have : \A l \in have : FLe(xs[l], xs[j])]

\* the true range of calculate_atr
true_range(data) ==
    LET high == Col(data, "High")
        low == Col(data, "Low")
        prev == shift(Col(data, "Close"))
    IN [i \in 1..Len(data.rows) |->
           RowMax(<< FSub(high[i], low[i]),
                     FAbs(FSub(high[i], prev[i])),
                     FAbs(FSub(low[i], prev[i])) >>)]

\* calculate_atr(data, period)
calculate_atr(data, period) ==
    IF ~({"High", "Low", "Close"} \subseteq data.cols) THEN Raised("KeyError")
    ELSE Returned(rolling_mean(true_range(data), period))

\* the scan with an equal close counted as a rise
RECURSIVE obv_scan_equal_adds(_, _)
obv_scan_equal_adds(data, n) ==
    IF n = 1 THEN << Num(data.rows[1].Volume) >>
    ELSE LET obv == obv_scan_equal_adds(data, n - 1)
             r == data.rows
         IN Append(obv,
                   IF r[n].Close >= r[n - 1].Close THEN FAdd(obv[n - 1], Num(r[n].Volume))
                   ELSE FSub(obv[n - 1], Num(r[n].Volume)))

\* the scan with the volume subtracted on a rise and added on a fall
RECURSIVE obv_scan_swapped(_, _)
obv_scan_swapped(data, n) ==
    IF n = 1 THEN << Num(data.rows[1].Volume) >>
    ELSE LET obv == obv_scan_swapped(data, n - 1)
             r == data.rows
         IN Append(obv,
                   IF r[n].Close > r[n - 1].Close THEN FSub(obv[n - 1], Num(r[n].Volume))
                   ELSE IF r[n].Close < r[n - 1].Close THEN FAdd(obv[n - 1], Num(r[n].Volume))
                   ELSE obv[n - 1])

\* the scan of calculate_obv over the first n rows
RECURSIVE obv_scan(_, _)
obv_scan(data, n) ==
    IF n = 1 THEN << Num(data.rows[1].Volume) >>
    ELSE LET obv == obv_scan(data, n - 1)
             r == data.rows
         IN Append(obv,
                   IF r[n].Close > r[n - 1].Close THEN FAdd(obv[n - 1], Num(r[n].Volume))
                   ELSE IF r[n].Close < r[n - 1].Close THEN FSub(obv[n - 1], Num(r[n].Volume))
                   ELSE obv[n - 1])

\* calculate_obv(data): volume.iloc[0] of a frame without rows raises
calculate_obv(data) ==
    IF ~({"Close", "Volume"} \subseteq data.cols) THEN Raised("KeyError")
    ELSE IF data.rows = <<>> THEN Raised("IndexError")
    ELSE Returned(obv_scan(data, Len(data.rows)))

\* calculate_technical_indicators(data): data itself when it is empty, else a copy
\* with the indicator columns
calculate_technical_indicators(data) ==
    IF empty(data) THEN Returned([data |-> data, added |-> {}])
    ELSE LET close == Col(data, "Close")
             ema_12 == ewm_mean(close, 12)
             ema_26 == ewm_mean(close, 26)
             macd == [i \in 1..Len(close) |-> FSub(ema_12[i], ema_26[i])]
             signal == ewm_mean(macd, 9)
             middle == rolling_mean(close, 20)
             var == rolling_var(close, 20)
             atr == calculate_atr(data, AtrPeriod)
             obv == calculate_obv(data)
         IN IF atr.exc # "none" THEN atr
            ELSE IF obv.exc # "none" THEN obv
            ELSE Returned(
               [data |-> data,
                added |-> {"SMA_20", "SMA_50", "SMA_200", "EMA_12", "EMA_26", "MACD",
                           "MACD_Signal", "MACD_Hist", "BB_Middle", "BB_Upper", "BB_Lower",
                           "RSI", "ATR", "OBV"},
                SMA_20 |-> rolling_mean(close, 20),
                SMA_50 |-> rolling_mean(close, 50),
                SMA_200 |-> rolling_mean(close, 200),
                EMA_12 |-> ema_12,
                EMA_26 |-> ema_26,
                MACD |-> macd,
                MACD_Signal |-> signal,
                MACD_Hist |-> [i \in 1..Len(close) |-> FSub(macd[i], signal[i])],
                BB_Middle |-> middle,
                BB_Upper |-> [i \in 1..Len(close) |-> Band(middle[i], var[i], 2)],
                BB_Lower |-> [i \in 1..Len(close) |-> Band(middle[i], var[i], -2)],
                RSI |-> calculate_rsi(close, RsiPeriod),
                ATR |-> atr.val,
                OBV |-> obv.val])

\* 'N/A' in the metrics
NotAvailable == [k |-> "N/A", n |-> 0, d |-> 0]
OrNA(x) == IF IsNaN(x) THEN NotAvailable ELSE x
Last(q) == q[Len(q)]

\* calculate_metrics(data, ticker) of app.py and dashboard.py; info is what
\* yf.Ticker(ticker).info does: "raises", or "ok" with values the formats accept
calculate_metrics(data, info) ==
    IF empty(data) THEN Returned([metrics |-> {}, data |-> data])
    ELSE IF info = "raises" THEN Raised("Exception")
    ELSE LET close == Col(data, "Close")
             latest_price == Last(close)
             previous_price == IF Len(close) > 1 THEN close[Len(close) - 1]
                               ELSE Last(Col(data, "Open"))
             price_change == FSub(latest_price, previous_price)
         IN Returned(
               [metrics |-> {"latest_price", "price_change", "price_change_pct", "market_cap",
                             "pe_ratio", "dividend_yield", "sma_20", "sma_50", "rsi"},
                latest_price |-> latest_price,
                price_change |-> price_change,
                price_change_pct |-> IF previous_price # Num(0)
                                     THEN FMul(FDiv(price_change, previous_price), Num(100))
                                     ELSE Num(0),
                sma_20 |-> OrNA(Last(rolling_mean(close, 20))),
                sma_50 |-> OrNA(Last(rolling_mean(close, 50))),
                rsi |-> OrNA(Last(calculate_rsi(close, RsiPeriod))),
                data |-> Frame(data.cols \cup {"SMA_20", "SMA_50", "RSI"}, data.rows)])

\* ------------------------------------------------- the market-data source --
Tickers == {"AAPL", "MSFT"}
\* what yf.download does for a ticker: it raises, or it returns a frame of bars, which
\* has no rows for a ticker the source has no data for
OneBar == Frame(OHLCV, << [Open |-> 1, High |-> 2, Low |-> 1, Close |-> 2, Volume |-> 2] >>)
Downloads == { Raised("Exception"), Returned(OneBar), Returned(Frame(OHLCV, <<>>)) }

\* the loop with a ticker whose download raises left out of the result
RECURSIVE fetch_loop_skips(_, _, _)
fetch_loop_skips(ticker_symbols, download, n) ==
    IF n = 0 THEN [t \in {} |-> NoData]
    ELSE LET data == fetch_loop_skips(ticker_symbols, download, n - 1)
             ticker == ticker_symbols[n]
         IN IF download[ticker].exc # "none" THEN data
            ELSE [t \in DOMAIN data \cup {ticker} |->
                     IF t = ticker THEN download[ticker].val ELSE data[t]]

\* the loop of fetch_stock_data over the first n tickers: data[ticker] is the frame
\* downloaded, or pd.DataFrame() when the download raised
RECURSIVE fetch_loop(_, _, _)
fetch_loop(ticker_symbols, download, n) ==
    IF n = 0 THEN [t \in {} |-> NoData]
    ELSE LET data == fetch_loop(ticker_symbols, download, n - 1)
             ticker == ticker_symbols[n]
         IN [t \in DOMAIN data \cup {ticker} |->
                IF t = ticker
                THEN IF download[ticker].exc = "none" THEN download[ticker].val ELSE NoData
                ELSE data[t]]

\* fetch_stock_data(ticker_symbols): nothing leaves the try of an iteration
fetch_stock_data(ticker_symbols, download) ==
    Returned(fetch_loop(ticker_symbols, download, Len(ticker_symbols)))

\* get_stock_data(ticker, period, interval) of dashboard.py and app.py, given the
\* exception record_interaction ended with ("none" if it returned) and what the
\* download does: an exception of either is caught and pd.DataFrame() returned
get_stock_data(recorded, download) ==
    IF recorded # "none" \/ download.exc # "none" THEN Returned(NoData)
    ELSE Returned(download.val)

\* ------------------------------------------------- calls of the functions --
MaxBars == 3                \* bars of a price series
MaxFrameBars == 2           \* bars of a frame given to calculate_technical_indicators
Period == 2                 \* the period passed to calculate_rsi and calculate_atr
ClosePrices == {1, 2, 4}
BarPrices == {1, 2}
Volumes == {0, 2}

Bars == { [Open |-> 1, High |-> h, Low |-> l, Close |-> c, Volume |-> v] :
             h \in BarPrices, l \in BarPrices, c \in BarPrices, v \in Volumes }
\* a close series as a float Series
SeriesOf(c) == [i \in 1..Len(c) |-> Num(c[i])]

\* the calls of the functions that take a frame, for a frame d: the longer frames go
\* to calculate_atr and calculate_obv only
FrameCalls(d) ==
    { [fn |-> "calculate_atr", arg |-> d, period |-> Period],
      [fn |-> "calculate_obv", arg |-> d] }
    \cup IF Len(d.rows) <= MaxFrameBars
         THEN { [fn |-> "calculate_technical_indicators", arg |-> d] }
              \cup { [fn |-> "calculate_metrics", arg |-> d, info |-> x] : x \in {"ok", "raises"} }
         ELSE {}

CalculateRsi ==
    /\ call.fn = "calculate_rsi"
    /\ Return(Returned(calculate_rsi(call.arg, call.period)))

\* the rolling columns of calculate_technical_indicators for a window w:
\* df['Close'].rolling(window=w).mean() and the bands around it
RollingMean ==
    /\ call.fn = "rolling_mean"
    /\ LET middle == rolling_mean(call.arg, call.window)
           var == rolling_var(call.arg, call.window)
       IN Return(Returned([middle |-> middle,
                           upper |-> [i \in 1..Len(middle) |-> Band(middle[i], var[i], 2)],
                           lower |-> [i \in 1..Len(middle) |-> Band(middle[i], var[i], -2)]]))

CalculateAtr ==
    /\ call.fn = "calculate_atr"
    /\ Return(calculate_atr(call.arg, call.period))

CalculateObv ==
    /\ call.fn = "calculate_obv"
    /\ Return(calculate_obv(call.arg))

CalculateTechnicalIndicators ==
    /\ call.fn = "calculate_technical_indicators"
    /\ Return(calculate_technical_indicators(call.arg))

CalculateMetrics ==
    /\ call.fn = "calculate_metrics"
    /\ Return(calculate_metrics(call.arg, call.info))

FetchStockData ==
    /\ call.fn = "fetch_stock_data"
    /\ Return(fetch_stock_data(call.arg, call.download))

\* get_stock_data in a session that is initialized: record_interaction("data_fetch",
\* ...) with its load, append and save (no other writer), then the download
GetStockData(t) ==
    LET e == Interaction(user_id[1], Timestamp(t), "data_fetch",
                         << << "ticker", call.arg >>, << "period", "1mo" >>,
                            << "interval", "1d" >> >>)
        l == load_analytics_data(file)
        a == append_event(l.data, "interactions", e)
        recorded == IF l.exc # "none" THEN l.exc ELSE a.exc
    IN /\ call.fn = "get_stock_data"
       /\ result = <<>>
       /\ Clock(t)
       /\ session_interactions' = [session_interactions EXCEPT ![1] = Append(@, e)]
       /\ file' = IF recorded = "none" THEN a.data ELSE file
       /\ hist' = IF recorded = "none"
                  THEN [prev |-> hist.last, last |-> a.data, by |-> "record_interaction",
                        ev |-> << e >>, visited |-> hist.visited]
                  ELSE hist
       /\ result' = << get_stock_data(recorded, call.download) >>
       /\ UNCHANGED << nextUuid, nops, limit, initialized, user_id, visit_timestamp,
                       session_page_views, pc, op, ev, all_analytics, raised, report,
                       pv_calls, race, call >>
       /\ UNCHANGED runVars

\* the calls of the two functions that download
MaxTickers == 2             \* ticker symbols passed to fetch_stock_data
FetchCalls ==
    { [fn |-> "fetch_stock_data", arg |-> q, download |-> d] :
         q \in SeqsUpTo(Tickers, MaxTickers), d \in [Tickers -> Downloads] }
    \cup { [fn |-> "get_stock_data", arg |-> t, download |-> d] :
              t \in Tickers, d \in Downloads }

\* the first session has run initialize_analytics and is between two operations;
\* the file is any of the files a script run can find
InitRunning ==
    /\ file \in InitFiles
    /\ limit = 0
    /\ now = 0
    /\ nextUuid = 3
    /\ nops = [s \in Sessions |-> 0]
    /\ initialized = [s \in Sessions |-> s = 1]
    /\ user_id = [s \in Sessions |-> IF s = 1 THEN 1 ELSE 0]
    /\ visit_timestamp = [s \in Sessions |-> 0]
    /\ session_page_views = [s \in Sessions |-> NoPageViews]
    /\ session_interactions = [s \in Sessions |-> <<>>]
    /\ pc = [s \in Sessions |-> IF s = 1 THEN "idle" ELSE "start"]
    /\ op = [s \in Sessions |-> "none"]
    /\ ev = [s \in Sessions |-> <<>>]
    /\ all_analytics = [s \in Sessions |-> EmptyLog]
    /\ raised = [s \in Sessions |-> "none"]
    /\ report = [s \in Sessions |-> NoReport]
    /\ hist = [prev |-> file, last |-> file, by |-> "none", ev |-> <<>>, visited |-> {1}]
    /\ pv_calls = [s \in Sessions |-> [p \in Pages |-> 0]]
    /\ race = NoRace

\* a call of one of the functions, with an argument of the bounded sets; NoData is
\* the frame without columns that stands for a failed download
InitFn ==
    \/ /\ InitWith(0)
       /\ file = Missing
       /\ result = <<>>
       /\ NoRun
       /\ \/ \E L \in LogsBuilt : call = [fn |-> "save_then_load", arg |-> L]
          \/ \E k \in 0..(MaxBars + 1) : \E c \in [1..k -> ClosePrices] :
                call = [fn |-> "calculate_rsi", arg |-> SeriesOf(c), period |-> Period]
          \/ \E k \in 0..MaxBars : \E c \in [1..k -> ClosePrices], w \in 1..(MaxBars + 1) :
                call = [fn |-> "rolling_mean", arg |-> SeriesOf(c), window |-> w]
          \/ \E k \in 0..MaxBars : \E r \in [1..k -> Bars] : call \in FrameCalls(Frame(OHLCV, r))
          \/ call \in FrameCalls(NoData)
    \/ /\ InitRunning
       /\ result = <<>>
       /\ NoRun
       /\ call \in FetchCalls

NextFn ==
    \/ SaveThenLoad
    \/ CalculateRsi
    \/ RollingMean
    \/ CalculateAtr
    \/ CalculateObv
    \/ CalculateTechnicalIndicators
    \/ CalculateMetrics
    \/ FetchStockData
    \/ \E t \in 0..MaxClock : GetStockData(t)

SpecFn == InitFn /\ [][NextFn]_vars

\* ------------------------------------------------ the script run of dashboard.py --
\* A script run of dashboard.py is at one of these places: before the body of the
\* current page ("body": the page title is done), in the refresh loop ("sleep": at
\* the top of a cycle), in the code after the page ("footer": the run is over), or
\* "aborted" when an exception ended the run.  Each record operation of a run is
\* taken whole here: load, append, save.
MaxRunSteps == 4            \* recording steps of the script runs, all sessions together

NavPages == {"Stocks", "Market", "Settings"}

\* the page name the title block records for the current page
page_name(page) ==
    IF page = "Stocks" THEN "Stock Dashboard"
    ELSE IF page = "Market" THEN "Market Dashboard"
    ELSE "Settings"

Recording(name, e) == [name |-> name, e |-> e]

\* the record operations of evs one after the other on the file f, up to the first
\* that raises: the content left, the exception, and how many were saved
\* one record operation on what the earlier ones left (r)
record_next(r, x) ==
    LET a == append_event(load_analytics_data(r.data).data, x.name, x.e)
    IN IF r.exc # "none" THEN r
       ELSE IF a.exc # "none" THEN [exc |-> a.exc, data |-> r.data, done |-> r.done]
       ELSE [exc |-> "none", data |-> a.data, done |-> r.done + 1]

\* the first n record operations of evs on the file f
RECURSIVE record_upto(_, _, _)
record_upto(f, evs, n) ==
    IF n = 0 THEN [exc |-> "none", data |-> f, done |-> 0]
    ELSE CHOOSE out \in { record_next(r, evs[n]) : r \in { record_upto(f, evs, n - 1) } } : TRUE

record_all(f, evs) == record_upto(f, evs, Len(evs))

EventsOf(recs) == [i \in 1..Len(recs) |-> recs[i].e]

\* the record operations evs of session s, then the run goes on at next
Records(s, evs, next) ==
    LET r == record_all(file, evs)
        tried == SubSeq(evs, 1, IF r.exc = "none" THEN r.done ELSE r.done + 1)
    IN /\ TotalOps < limit
       /\ nops' = [nops EXCEPT ![s] = @ + 1]
       /\ file' = r.data
       /\ raised' = [raised EXCEPT ![s] = r.exc]
       /\ run' = [run EXCEPT ![s] = @ \o EventsOf(SubSeq(evs, 1, r.done))]
       /\ session_interactions' =
              [session_interactions EXCEPT
                  ![s] = @ \o EventsOf(SelectSeq(tried, LAMBDA x : x.name = "interactions"))]
       /\ phase' = [phase EXCEPT ![s] = IF r.exc = "none" THEN next ELSE "aborted"]

\* change_page leaves the page as it was
change_page_keeps(s, page) == current_page[s]

\* st.session_state.current_page = page
change_page(s, page) == page

\* A script run from its first line to the page title.  Streamlit starts it for a
\* new session, or again for a session whose run has drawn the navigation bar (b is
\* the button the user pressed, "none" for any other cause of the rerun), stopping
\* the run in progress.  initialize_analytics records the visit in the first run and
\* does nothing later; current_page gets 'Stocks' when it is not set; the pressed
\* button calls change_page; the title block records the page view of the page that
\* is current then.
ScriptTop(s, b, t) ==
    LET first == phase[s] = "none"
        page == IF b # "none" THEN change_page(s, b)
                ELSE IF current_page[s] = "none" THEN "Stocks" ELSE current_page[s]
        u == IF first THEN nextUuid ELSE user_id[s]
        views == IF first THEN NoPageViews ELSE session_page_views[s]
        n == IF page_name(page) \in DOMAIN views THEN views[page_name(page)] + 1 ELSE 0 + 1
        recs == (IF first
                 THEN << Recording("visits", Visit(u, Timestamp(t), nextUuid + 1)) >>
                 ELSE <<>>)
                \o (IF b # "none"
                    THEN << Recording("interactions",
                                      Interaction(u, Timestamp(t), "page_navigation",
                                                  << << "to_page", b >> >>)) >>
                    ELSE <<>>)
                \o << Recording("page_views", PageView(u, Timestamp(t), page_name(page), n)) >>
        r == record_all(file, recs)
        tried == SubSeq(recs, 1, IF r.exc = "none" THEN r.done ELSE r.done + 1)
    IN /\ IF first
          THEN b = "none" /\ \A o \in Sessions : o < s => phase[o] # "none"
          ELSE \/ phase[s] \in {"body", "sleep", "footer"}
               \/ phase[s] = "aborted" /\ (b = "none" \/ current_page[s] # "none")
       /\ TotalOps < limit
       /\ nops' = [nops EXCEPT ![s] = @ + 1]
       /\ Clock(t)
       /\ initialized' = [initialized EXCEPT ![s] = TRUE]
       /\ user_id' = [user_id EXCEPT ![s] = u]
       /\ visit_timestamp' = [visit_timestamp EXCEPT ![s] = IF first THEN Timestamp(t) ELSE @]
       /\ nextUuid' = IF first THEN nextUuid + 2 ELSE nextUuid
       /\ session_interactions' =
              [session_interactions EXCEPT
                  ![s] = (IF first THEN <<>> ELSE @)
                         \o EventsOf(SelectSeq(tried, LAMBDA x : x.name = "interactions"))]
       /\ session_page_views' =
              [session_page_views EXCEPT
                  ![s] = IF Len(tried) = Len(recs)
                         THEN [q \in DOMAIN views \cup {page_name(page)} |->
                                  IF q = page_name(page) THEN n ELSE views[q]]
                         ELSE views]
       /\ current_page' = [current_page EXCEPT
                              ![s] = IF first /\ r.done = 0 THEN "none" ELSE page]
       /\ button' = [button EXCEPT ![s] = b]
       /\ file' = r.data
       /\ raised' = [raised EXCEPT ![s] = r.exc]
       /\ run' = [run EXCEPT ![s] = EventsOf(SubSeq(recs, 1, r.done))]
       /\ cycles' = [cycles EXCEPT ![s] = 0]
       /\ auto_refresh' = [auto_refresh EXCEPT ![s] = FALSE]
       /\ phase' = [phase EXCEPT ![s] = IF r.exc = "none" THEN "body" ELSE "aborted"]
       /\ UNCHANGED << limit, pc, op, ev, all_analytics, report, hist, pv_calls, race, call,
                       result >>

\* what a call of update_stock_dashboard meets: whether get_stock_data downloads
\* (no cached value) and whether plot_stock_data has bars to draw; here a download
\* that brings bars, and a cached frame without bars
UpdateInputs == {[fetch |-> TRUE, chart |-> TRUE], [fetch |-> FALSE, chart |-> FALSE]}

\* update_stock_dashboard() with one selected stock
update_stock_dashboard(s, t, in) ==
    (IF in.fetch
     THEN << Recording("interactions",
                       Interaction(user_id[s], Timestamp(t), "data_fetch",
                                   << << "ticker", "AAPL" >>, << "period", "1mo" >>,
                                      << "interval", "1d" >> >>)) >>
     ELSE <<>>)
    \o (IF in.chart
        THEN << Recording("interactions",
                          Interaction(user_id[s], Timestamp(t), "chart_view",
                                      << << "ticker", "AAPL" >> >>)) >>
        ELSE <<>>)
    \o << Recording("interactions",
                    Interaction(user_id[s], Timestamp(t), "dashboard_update", NoDetails)) >>

MarketViews ==
    << << "view_market_indices", NoDetails >>,
       << "view_index_comparison", << << "period", "6mo" >> >> >>,
       << "view_sector_performance", NoDetails >>,
       << "view_economic_indicators", NoDetails >>,
       << "view_market_movers", NoDetails >>,
       << "view_market_heatmap", << << "period", "5d" >> >> >> >>

\* update_market_dashboard()
update_market_dashboard(s, t) ==
    [i \in 1..Len(MarketViews) |->
        Recording("interactions",
                  Interaction(user_id[s], Timestamp(t), MarketViews[i][1], MarketViews[i][2]))]

\* the update the page does
update_dashboard(s, t, in) ==
    IF current_page[s] = "Stocks" THEN update_stock_dashboard(s, t, in)
    ELSE update_market_dashboard(s, t)

\* the inputs that matter to the page
InputsOf(s) ==
    IF current_page[s] = "Stocks" THEN UpdateInputs ELSE {[fetch |-> FALSE, chart |-> FALSE]}

\* the body of the Stocks and Market pages: the checkbox gives auto_refresh, then
\* the initial update, then `if auto_refresh:` enters the loop
PageBody(s, t, checked) ==
    /\ phase[s] = "body"
    /\ current_page[s] \in {"Stocks", "Market"}
    /\ Clock(t)
    /\ auto_refresh' = [auto_refresh EXCEPT ![s] = checked]
    /\ \E in \in InputsOf(s) :
           Records(s, update_dashboard(s, t, in), IF checked THEN "sleep" ELSE "footer")
    /\ UNCHANGED << nextUuid, limit, initialized, user_id, visit_timestamp,
                    session_page_views, pc, op, ev, all_analytics, report, hist, pv_calls,
                    race, call, result, current_page, button, cycles >>

\* the body of the Settings page with none of its buttons pressed
SettingsBody(s) ==
    /\ phase[s] = "body"
    /\ current_page[s] = "Settings"
    /\ phase' = [phase EXCEPT ![s] = "footer"]
    /\ UNCHANGED << file, now, nextUuid, nops, limit, sessionVars, pc, op, ev, all_analytics,
                    raised, report, hist, pv_calls, race, call, result, current_page, button,
                    auto_refresh, run, cycles >>

\* the exit test of a loop that reads the checkbox again in every cycle
exit_test_rereads(s, checked) == ~checked

\* `if not auto_refresh: break`
exit_test(s, checked) == ~auto_refresh[s]

\* one cycle of `while True:`: the sleep, the update, dashboard_auto_refresh, the
\* exit test
Cycle(s, t, checked) ==
    /\ phase[s] = "sleep"
    /\ Clock(t)
    /\ \E in \in InputsOf(s) :
           Records(s, update_dashboard(s, t, in)
                      \o << Recording("interactions",
                                      Interaction(user_id[s], Timestamp(t),
                                                  "dashboard_auto_refresh", NoDetails)) >>,
                   IF exit_test(s, checked) THEN "footer" ELSE "sleep")
    /\ cycles' = [cycles EXCEPT ![s] = IF phase'[s] = "aborted" THEN @ ELSE @ + 1]
    /\ UNCHANGED << nextUuid, limit, initialized, user_id, visit_timestamp,
                    session_page_views, pc, op, ev, all_analytics, report, hist, pv_calls,
                    race, call, result, current_page, button, auto_refresh >>

InitRun == InitWith(MaxRunSteps) /\ call = NoCall /\ result = <<>> /\ NoRun

\* the wall clock is read as it stands, and goes on in the sleep of a cycle
NextRun ==
    \E s \in Sessions :
        \/ \E b \in NavPages \cup {"none"} : ScriptTop(s, b, now)
        \/ \E checked \in BOOLEAN : PageBody(s, now, checked)
        \/ SettingsBody(s)
        \/ \E t \in 0..MaxClock : \E checked \in BOOLEAN : Cycle(s, t, checked)

SpecRun == InitRun /\ [][NextRun]_vars

\* a step that completes a cycle of the refresh loop of session s
CycleStep(s) ==
    /\ phase[s] = "sleep"
    /\ TotalOps < limit
    /\ cycles' = [cycles EXCEPT ![s] = @ + 1]

\* The script thread of a session in the loop is scheduled again and again: its
\* sleep ends and the cycle is done, unless the run is stopped first.
SpecRunFair ==
    /\ InitRun
    /\ [][NextRun]_vars
    /\ \A s \in Sessions : WF_cycles(CycleStep(s))

\* ------------------------------------------------- properties of the calls --
IndicatorCalls ==
    {"calculate_technical_indicators", "calculate_rsi", "calculate_atr", "calculate_obv",
     "calculate_metrics"}
EmptyInput == IF call.fn = "calculate_rsi" THEN call.arg = <<>> ELSE empty(call.arg)

\* C14: an indicator operation called with an empty price series returns, and does
\* not raise.
C14_EmptyInputNeverRaises ==
    (call.fn \in IndicatorCalls /\ EmptyInput /\ result # <<>>) => result[1].exc = "none"

RsiReturned == call.fn = "calculate_rsi" /\ result # <<>>
\* the positions whose window of call.period price changes is full
RsiFull == {i \in 1..Len(call.arg) : i >= call.period + 1}
\* no price of the window is below the one before it: the average loss is 0
NoLoss(i) == \A j \in (i - call.period + 1)..i : FLe(call.arg[j - 1], call.arg[j])

\* C15: where the window is full and its average loss is 0, calculate_rsi yields 100,
\* whether the average gain is positive or 0.
C15_RsiIs100WithoutLoss ==
    RsiReturned => \A i \in RsiFull : NoLoss(i) => result[1].val[i] = Num(100)

\* C16: every RSI value that is not NaN lies between 0 and 100.
C16_RsiBounded ==
    RsiReturned =>
        \A i \in 1..Len(call.arg) :
            ~IsNaN(result[1].val[i]) =>
                FLe(Num(0), result[1].val[i]) /\ FLe(result[1].val[i], Num(100))

C16_Witness ==
    /\ RsiReturned
    /\ Len(call.arg) = MaxBars + 1
    /\ \E i \in RsiFull : FLt(Num(0), result[1].val[i]) /\ FLt(result[1].val[i], Num(100))
    /\ \E i \in RsiFull : result[1].val[i] \in {Num(0), Num(100)}

ObvReturned == call.fn = "calculate_obv" /\ result # <<>> /\ result[1].exc = "none"

\* the frame of the example: close 10, 11, 10, 10, 12 and volume 100, 50, 30, 20, 40
ObvExample ==
    Frame(OHLCV, [i \in 1..5 |->
        [Open |-> 1, High |-> 1, Low |-> 1,
         Close |-> << 10, 11, 10, 10, 12 >>[i], Volume |-> << 100, 50, 30, 20, 40 >>[i]]])

\* C17: OBV starts at the first volume; each later value is the one before plus the
\* bar's volume if the close rose, minus it if the close fell, and the same if the
\* close is equal; the example gives 100, 150, 120, 120, 160.
C17_ObvScan ==
    /\ ObvReturned =>
          LET r == call.arg.rows
              obv == result[1].val
          IN /\ Len(obv) = Len(r)
             /\ obv[1] = Num(r[1].Volume)
             /\ \A i \in 2..Len(r) :
                   obv[i] = IF r[i].Close > r[i - 1].Close
                            THEN FAdd(obv[i - 1], Num(r[i].Volume))
                            ELSE IF r[i].Close < r[i - 1].Close
                            THEN FSub(obv[i - 1], Num(r[i].Volume))
                            ELSE obv[i - 1]
    /\ calculate_obv(ObvExample) =
          Returned(<< Num(100), Num(150), Num(120), Num(120), Num(160) >>)

C17_Witness ==
    /\ ObvReturned
    /\ Len(call.arg.rows) = 3
    /\ call.arg.rows[2].Close > call.arg.rows[1].Close
    /\ call.arg.rows[3].Close = call.arg.rows[2].Close
    /\ \A i \in 1..3 : call.arg.rows[i].Volume > 0
    /\ result[1].val[2] = Num(call.arg.rows[1].Volume + call.arg.rows[2].Volume)
    /\ result[1].val[3] = result[1].val[2]

\* C18: with volumes that are not negative, OBV never decreases along a series whose
\* close never decreases, and never increases along one whose close never increases.
C18_ObvMonotonic ==
    (ObvReturned /\ \A i \in 1..Len(call.arg.rows) : call.arg.rows[i].Volume >= 0) =>
        LET r == call.arg.rows
            obv == result[1].val
            steps == 2..Len(r)
        IN /\ (\A i \in steps : r[i - 1].Close <= r[i].Close) =>
                  \A i \in steps : FLe(obv[i - 1], obv[i])
           /\ (\A i \in steps : r[i - 1].Close >= r[i].Close) =>
                  \A i \in steps : FLe(obv[i], obv[i - 1])

C18_Witness ==
    /\ ObvReturned
    /\ Len(call.arg.rows) = 3
    /\ \A i \in 2..3 : call.arg.rows[i - 1].Close >= call.arg.rows[i].Close
    /\ call.arg.rows[1].Close > call.arg.rows[3].Close
    /\ FLt(result[1].val[3], result[1].val[1])

\* every position of the series q before position w is NaN
NotAvailableBefore(q, w) == \A i \in 1..Len(q) : i < w => IsNaN(q[i])

\* C19: a window-based indicator is NaN at every position before its window is full,
\* hence everywhere on a series shorter than the window: the rolling mean and the
\* bands for every window, RSI and ATR for the period passed, and the columns
\* SMA_20, SMA_50, SMA_200, BB_Middle, BB_Upper, BB_Lower, RSI and ATR of
\* calculate_technical_indicators with their windows 20, 50, 200 and 14.
C19_NotAvailableBeforeWindow ==
    (result # <<>> /\ call.fn # "save_then_load" /\ result[1].exc = "none") =>
        CASE call.fn = "rolling_mean" ->
                /\ NotAvailableBefore(result[1].val.middle, call.window)
                /\ NotAvailableBefore(result[1].val.upper, call.window)
                /\ NotAvailableBefore(result[1].val.lower, call.window)
          [] call.fn = "calculate_rsi" -> NotAvailableBefore(result[1].val, call.period)
          [] call.fn = "calculate_atr" -> NotAvailableBefore(result[1].val, call.period)
          [] call.fn = "calculate_technical_indicators" /\ ~empty(call.arg) ->
                /\ NotAvailableBefore(result[1].val.SMA_20, 20)
                /\ NotAvailableBefore(result[1].val.SMA_50, 50)
                /\ NotAvailableBefore(result[1].val.SMA_200, 200)
                /\ NotAvailableBefore(result[1].val.BB_Middle, 20)
                /\ NotAvailableBefore(result[1].val.BB_Upper, 20)
                /\ NotAvailableBefore(result[1].val.BB_Lower, 20)
                /\ NotAvailableBefore(result[1].val.RSI, RsiPeriod)
                /\ NotAvailableBefore(result[1].val.ATR, AtrPeriod)
          [] OTHER -> TRUE

C19_Witness ==
    /\ call.fn = "rolling_mean"
    /\ result # <<>>
    /\ call.window = 2
    /\ Len(call.arg) = 3
    /\ IsNaN(result[1].val.middle[1]) /\ IsNaN(result[1].val.upper[1])
    /\ \A i \in 2..3 : ~IsNaN(result[1].val.middle[i]) /\ ~IsNaN(result[1].val.lower[i])

\* C20: every ATR value that is not NaN is at least 0, for every frame, bars with
\* High below Low included.
C20_AtrNotNegative ==
    (call.fn = "calculate_atr" /\ result # <<>> /\ result[1].exc = "none") =>
        \A i \in 1..Len(result[1].val) :
            ~IsNaN(result[1].val[i]) => FLe(Num(0), result[1].val[i])

\* the columns and the result of a call of calculate_technical_indicators that
\* returned the indicators of a frame with rows
IndicatorsReturned ==
    /\ call.fn = "calculate_technical_indicators"
    /\ result # <<>>
    /\ result[1].exc = "none"
    /\ ~empty(call.arg)

\* e is x at the first position and alpha * x[t] + (1 - alpha) * e[t - 1] after it,
\* with alpha = 2 / (span + 1)
FollowsEma(e, x, span) ==
    LET alpha == Q(2, span + 1) IN
    /\ Len(e) = Len(x)
    /\ e[1] = x[1]
    /\ \A t \in 2..Len(x) :
           e[t] = FAdd(FMul(alpha, x[t]), FMul(FSub(Num(1), alpha), e[t - 1]))

ConstantClose == \A i \in 1..Len(call.arg.rows) : call.arg.rows[i].Close = call.arg.rows[1].Close

\* C21: EMA_12 and EMA_26 start at the first close and follow
\* EMA[t] = a * close[t] + (1 - a) * EMA[t - 1] with a = 2 / (span + 1) (so does
\* MACD_Signal over MACD with span 9); on a series of constant close v, EMA_12 and
\* EMA_26 are v and MACD, MACD_Signal and MACD_Hist are 0 at every position.
C21_EmaSeededWithFirstValue ==
    IndicatorsReturned =>
        LET r == result[1].val
            close == Col(call.arg, "Close")
        IN /\ FollowsEma(r.EMA_12, close, 12)
           /\ FollowsEma(r.EMA_26, close, 26)
           /\ FollowsEma(r.MACD_Signal, r.MACD, 9)
           /\ ConstantClose =>
                 \A i \in 1..Len(close) :
                    /\ r.EMA_12[i] = close[1]
                    /\ r.EMA_26[i] = close[1]
                    /\ r.MACD[i] = Num(0)
                    /\ r.MACD_Signal[i] = Num(0)
                    /\ r.MACD_Hist[i] = Num(0)

C21_Witness ==
    /\ IndicatorsReturned
    /\ Len(call.arg.rows) = 2
    /\ ConstantClose
    /\ call.arg.rows[1].Close = 2
    /\ result[1].val.EMA_26[2] = Num(2)
    /\ result[1].val.MACD_Hist[2] = Num(0)

\* C22: computing indicators leaves the caller's frame as it was: after a call of
\* calculate_technical_indicators or calculate_metrics that returned, the frame
\* passed has the columns and the rows it had before the call.
C22_IndicatorsLeaveInputUnchanged ==
    (/\ call.fn \in {"calculate_technical_indicators", "calculate_metrics"}
     /\ result # <<>>
     /\ result[1].exc = "none") => result[1].val.data = call.arg

\* the fields of the event each record operation builds
EventFields(o) ==
    IF o = "record_visit" THEN {"user_id", "timestamp", "session_id"}
    ELSE IF o = "record_page_view" THEN {"user_id", "timestamp", "page_name", "view_count"}
    ELSE {"user_id", "timestamp", "interaction_type", "details"}

\* C23: with one writer at a time, a record operation that ran to its end on a
\* well-formed log leaves the log with its one event appended at the end of its own
\* sequence (record_visit: visits, record_page_view: page_views,
\* record_interaction: interactions) and the other two sequences as they were.
C23_RecordAppendsOneEvent ==
    (WellFormed(hist.prev) /\ hist.by \in RecordOps) =>
        /\ WellFormed(hist.last)
        /\ DOMAIN hist.ev[1] = EventFields(hist.by)
        /\ hist.last[NameOf(hist.by)] = Append(hist.prev[NameOf(hist.by)], hist.ev[1])
        /\ \A n \in Names \ {NameOf(hist.by)} : hist.last[n] = hist.prev[n]

C23_Witness ==
    /\ WellFormed(hist.prev)
    /\ hist.by = "record_interaction"
    /\ file = hist.last
    /\ hist.prev.interactions # <<>>
    /\ hist.prev.page_views # <<>>
    /\ Len(file.visits) > 2
    /\ file.interactions = Append(hist.prev.interactions, hist.ev[1])

\* C24: after any record or clear operation, whatever the file was at the start, the
\* complete content of the file is a mapping with exactly the three names, each
\* holding a sequence.
C24_LogHasThreeSequences ==
    (hist.by # "none" /\ file = hist.last) => WellFormed(file)

\* the counts of a bucket list, added up
BucketTotal(b) == SumSeq([i \in 1..Len(b) |-> b[i].count])

\* C25: a summary of a log with the three sequences and at least one event, the
\* visits empty or not, reports the number of stored interactions as the total of
\* interactions (where the page has that metric), page-view buckets whose counts add
\* up to the number of stored page views, interaction-type buckets whose counts add up
\* to the number of stored interactions, and each bucket list by descending count.
C25_SummaryCountsEveryLog ==
    [][\A s \in Sessions :
          (Summarized(s) /\ WellFormed(file) /\ Events(file) > 0) =>
              /\ report'[s].shown
              /\ "total_interactions" \in DOMAIN report'[s] =>
                     report'[s].total_interactions = Len(file.interactions)
              /\ BucketTotal(report'[s].page_popularity) = Len(file.page_views)
              /\ BucketTotal(report'[s].interaction_types) = Len(file.interactions)
              /\ Descending(report'[s].page_popularity)
              /\ Descending(report'[s].interaction_types)]_vars

\* C26: when the download raises, fetch_stock_data still returns, with the frame
\* without rows and columns for that ticker and, for every other ticker of the list,
\* what its download gave; get_stock_data returns the frame without rows and
\* columns.  Neither raises.
C26_FetchFailureNeverPropagates ==
    /\ (call.fn = "fetch_stock_data" /\ result # <<>>) =>
          /\ result[1].exc = "none"
          /\ DOMAIN result[1].val = {call.arg[i] : i \in 1..Len(call.arg)}
          /\ \A t \in DOMAIN result[1].val :
                IF call.download[t].exc # "none"
                THEN result[1].val[t] = NoData /\ empty(result[1].val[t])
                ELSE result[1].val[t] = call.download[t].val
    /\ (call.fn = "get_stock_data" /\ result # <<>>) =>
          /\ result[1].exc = "none"
          /\ call.download.exc # "none" => result[1].val = NoData /\ empty(result[1].val)

C26_Witness ==
    /\ call.fn = "fetch_stock_data"
    /\ result # <<>>
    /\ call.arg = << "AAPL", "MSFT" >>
    /\ call.download["AAPL"].exc # "none"
    /\ call.download["MSFT"] = Returned(OneBar)
    /\ result[1].val["AAPL"] = NoData
    /\ result[1].val["MSFT"] = OneBar

\* the session's record_visit has run to its end
VisitDone(s) == initialized[s] /\ ~(op[s] = "record_visit" /\ pc[s] \in {"load", "save", "write"})

\* the clear button has not been used
NoClear ==
    /\ hist.by # "clear"
    /\ \A s \in Sessions :
          /\ op[s] \notin {"clear", "clear_interaction"}
          /\ pc[s] # "clear_record"
          /\ \A i \in 1..Len(session_interactions[s]) :
                session_interactions[s][i].interaction_type # "clear_analytics_data"

\* the visits of the log that carry the user_id u
VisitsOf(u) == Cardinality({i \in 1..Len(file.visits) : file.visits[i].user_id = u})

\* C27: with one operation at a time, a record_visit begins only in a session that
\* is not initialized yet; once a session is initialized, no later script run changes
\* its user_id or visit_timestamp; and as long as the clear button is not used, a log
\* that has the visits sequence holds exactly one visit with the user_id of each
\* session whose visit was recorded, however many operations its script runs made.
C27_OneVisitPerSession ==
    /\ [][\A s \in Sessions :
            /\ (op'[s] = "record_visit" /\ op[s] # "record_visit") => ~initialized[s]
            /\ initialized[s] =>
                   /\ initialized'[s]
                   /\ user_id'[s] = user_id[s]
                   /\ visit_timestamp'[s] = visit_timestamp[s]]_vars
    /\ [](\A s \in Sessions :
            (/\ VisitDone(s)
             /\ NoClear
             /\ file.kind = "map"
             /\ "visits" \in file.keys \ file.bad) => VisitsOf(user_id[s]) = 1)

C27_Witness ==
    \E s \in Sessions :
        /\ VisitDone(s)
        /\ NoClear
        /\ nops[s] = MaxOps
        /\ pc[s] = "idle"
        /\ WellFormed(file)
        /\ Len(file.visits) > 1
        /\ VisitsOf(user_id[s]) = 1

\* the session's operation writes its page view or its interaction in this step
WritesEvent(s) ==
    /\ pc[s] = "write"
    /\ pc'[s] # "write"
    /\ op[s] \in {"record_page_view", "record_interaction", "clear_interaction"}

\* C28: a session writes a page view or an interaction only after its visit has been
\* written.
C28_VisitWrittenFirst ==
    [][\A s \in Sessions : WritesEvent(s) => s \in hist.visited]_vars

\* ------------------------------------------- properties of the script runs --
\* the page views among the events a run has appended
PageViewsOf(q) == SelectSeq(q, LAMBDA e : "page_name" \in DOMAIN e)

\* e is the page_navigation interaction to the page of button b
IsNavigation(e, b) ==
    /\ "interaction_type" \in DOMAIN e
    /\ e.interaction_type = "page_navigation"
    /\ e.details = << << "to_page", b >> >>

\* the run of session s has gone past the page title
PastTitle(s) == phase[s] \in {"body", "sleep", "footer"}

InLog(e, q) == \E k \in 1..Len(q) : q[k] = e

\* C29: no script run of dashboard.py appends more than one page view, and a run
\* that has gone past the page title has appended exactly one, which names the page
\* that is current; when a navigation button started the run, the current page is
\* the page of the button, the first event the run appended is the page_navigation
\* interaction to that page and the page view comes right after it, and both are
\* in the log.
C29_NavigationBeforePageView ==
    \A s \in Sessions :
        /\ Len(PageViewsOf(run[s])) <= 1
        /\ PastTitle(s) =>
              /\ Len(PageViewsOf(run[s])) = 1
              /\ PageViewsOf(run[s])[1].page_name = page_name(current_page[s])
              /\ file.kind = "map"
              /\ InLog(PageViewsOf(run[s])[1], file.page_views)
              /\ button[s] # "none" =>
                    /\ current_page[s] = button[s]
                    /\ Len(run[s]) >= 2
                    /\ IsNavigation(run[s][1], button[s])
                    /\ run[s][2] = PageViewsOf(run[s])[1]
                    /\ InLog(run[s][1], file.interactions)

\* a run started by the Market button in a session that viewed the Stocks page before
C29_Witness ==
    \E s \in Sessions :
        /\ phase[s] = "body"
        /\ button[s] = "Market"
        /\ file.kind = "map"
        /\ \E k \in 1..Len(file.page_views) :
              /\ file.page_views[k].user_id = user_id[s]
              /\ file.page_views[k].page_name = "Stock Dashboard"
        /\ run[s][2].page_name = "Market Dashboard"


\* the interaction types of the events the step has added to the run of session s
Added(s) ==
    [i \in 1..(Len(run'[s]) - Len(run[s])) |-> run'[s][Len(run[s]) + i].interaction_type]

\* the step completes a cycle of the refresh loop of session s
CycleDone(s) == phase[s] = "sleep" /\ cycles'[s] = cycles[s] + 1

HasUpdate(q) == \E i \in 1..Len(q) : q[i] = "dashboard_update"

\* the loop never leaves by its exit test: the test is false in the loop, and no
\* step takes a run from the loop to the code after it
NeverExits ==
    /\ [](\A s \in Sessions : phase[s] = "sleep" => ~exit_test(s, auto_refresh[s]))
    /\ [][\A s \in Sessions : phase[s] = "sleep" => phase'[s] # "footer"]_vars

\* every completed cycle adds at least two interactions to the log
LogGrows ==
    [][\A s \in Sessions :
          CycleDone(s) =>
              /\ file.kind = "map" /\ file'.kind = "map"
              /\ Len(file'.interactions) >= Len(file.interactions) + 2]_vars

\* a run in the loop completes its next cycle, unless it is stopped or the steps of
\* the model are used up
LoopGoesOn ==
    \A s \in Sessions : \A k \in 0..MaxRunSteps :
        (phase[s] = "sleep" /\ cycles[s] = k /\ TotalOps < limit)
            ~> (cycles[s] = k + 1 \/ phase[s] # "sleep" \/ TotalOps >= limit)

====
